---- MODULE Spec2Model ----
(***************************************************************************)
(* Model of the record merge of DataExtractor.extract_data and of the      *)
(* recognition paths of OCRProcessor that feed it.                         *)
(*                                                                         *)
(* Python lists are mutable objects that several holders can reference, so *)
(* list values are kept in a heap (reference -> elements); a value that is *)
(* a list is a reference into that heap.  Scalars and mappings are values. *)
(*                                                                         *)
(* The operations that work on one argument at a time (prompt lookup,      *)
(* record construction, projection to tables, export) are modelled as      *)
(* calls: op names the operation, arg is what it was given, ret what it    *)
(* gave back or raised, env what lies outside the program (prompt files,   *)
(* requests sent, export directory, messages shown).                       *)
(***************************************************************************)
EXTENDS Integers, Sequences, FiniteSets, TLC

VARIABLES
    pdf_pages,      \* the caller's page list
    heap,           \* the list objects: reference -> elements
    ocr_processor,  \* DataExtractor.ocr_processor is set
    result,         \* the ExtractionResult the last returning call gave
    outcome,        \* how the last extract_data call ended
    calls,          \* number of extract_data calls so far
    merge_heap,     \* the list objects as they were when the last merge began
    op,             \* the operation called last, outside extract_data's merge
    arg,            \* the argument of that call
    ret,            \* what that call returned or raised
    env             \* what lies outside the program

mergeVars == <<pdf_pages, heap, ocr_processor, result, outcome, calls, merge_heap>>
callVars == <<op, arg, ret, env>>
vars == <<pdf_pages, heap, ocr_processor, result, outcome, calls, merge_heap,
          op, arg, ret, env>>

\* Bounds of the model.
MaxPages == 3
MaxShuffledPages == 2
MaxCalls == 2

(***************************************************************************)
(* JSON-like values                                                        *)
(***************************************************************************)
None == [t |-> "None"]
Scalar(s) == [t |-> "scalar", s |-> s]
Dict(d) == [t |-> "dict", d |-> d]
ListRef(r) == [t |-> "list", ref |-> r]
Entry(key, value) == [k |-> key, v |-> value]

\* isinstance(value, list)
IsList(value) == value.t = "list"

\* References of the list objects: the list a page's record holds under a
\* key, the list of the combined record, the list the merge creates for a key.
PageRef(i, key) == [o |-> "page", n |-> i, k |-> key]
CombinedRef(key) == [o |-> "combined", n |-> 0, k |-> key]
MergedRef(key) == [o |-> "merged", n |-> 0, k |-> key]

EmptyHeap == [r \in {} |-> <<>>]

\* The value of a record by content: every list reference replaced by the
\* elements it holds in heap h.
RECURSIVE Deref(_, _)
Deref(value, h) ==
    IF IsList(value)
    THEN [t |-> "list",
          elems |-> [j \in 1..Len(h[value.ref]) |-> Deref(h[value.ref][j], h)]]
    ELSE value

DerefContents(contents, h) ==
    [j \in 1..Len(contents) |-> Entry(contents[j].k, Deref(contents[j].v, h))]

(***************************************************************************)
(* Records (models.py)                                                     *)
(***************************************************************************)
StructuredOCR(file_name, ocr_contents) ==
    [file_name |-> file_name, ocr_contents |-> ocr_contents]

PDFPage(page_number, image_path, ocr_data) ==
    [page_number |-> page_number, image_path |-> image_path, ocr_data |-> ocr_data]

ExtractionResult(pdf_file, prompt_name, extracted_data) ==
    [pdf_file |-> pdf_file, prompt_name |-> prompt_name,
     extracted_data |-> extracted_data]

\* image_path of page i as convert_pdf_to_images names it
ImagePath(i) == "page_00" \o ToString(i) \o ".jpeg"

(***************************************************************************)
(* What recognition of a page can produce                                  *)
(***************************************************************************)
\* The values a record can hold under key "a" for source n (a page number,
\* 0 for the combined record): a scalar, a list of two scalars, a mapping.
\* Values differ from source to source, so a merged value shows which page
\* contributed which part.
ValueKinds == {"scalar", "list", "dict"}

ScalarOf(n) == Scalar("v" \o ToString(n))
ListElems(n) == <<Scalar("A" \o ToString(n)), Scalar("B" \o ToString(n))>>
Mapping == Dict(<<Entry("name", Scalar("Acme"))>>)

ValueOf(kind, ref, n) ==
    CASE kind = "scalar" -> ScalarOf(n)
      [] kind = "list" -> ListRef(ref)
      [] kind = "dict" -> Mapping

\* The shapes of ocr_contents: key a alone with a value of any kind, key b
\* alone, a then b, b then a (both scalars); key b always holds a scalar.
Layouts == {"a", "ab", "ba"}
Shapes ==
    {[layout |-> "b", kind |-> "scalar"]}
    \cup [layout : {"a"}, kind : ValueKinds]
    \cup [layout : {"ab", "ba"}, kind : {"scalar"}]

ContentsOf(shape, ref, n) ==
    LET a == Entry("a", ValueOf(shape.kind, ref, n))
        b == Entry("b", Scalar("Q" \o ToString(n)))
    IN CASE shape.layout = "b" -> <<b>>
         [] shape.layout = "a" -> <<a>>
         [] shape.layout = "ab" -> <<a, b>>
         [] shape.layout = "ba" -> <<b, a>>

\* The list objects a record of that shape brings with it.
CellsOf(shape, ref, n) ==
    IF shape.layout \in Layouts /\ shape.kind = "list"
    THEN ref :> ListElems(n)
    ELSE EmptyHeap

\* structured_ocr's record when recognition raised: the error marker.
ErrorMarker(image_path) ==
    StructuredOCR(image_path,
                  <<Entry("error", Scalar("API error")),
                    Entry("file", Scalar(image_path)),
                    Entry("message", Scalar("Erreur lors du traitement OCR"))>>)

\* structured_ocr on page i: the parsed record of some shape, or the marker.
Outcomes == {[ok |-> TRUE, shape |-> s] : s \in Shapes}
            \cup {[ok |-> FALSE, shape |-> [layout |-> "b", kind |-> "scalar"]]}

structured_ocr(page, o) ==
    IF o.ok
    THEN StructuredOCR(page.image_path,
                       ContentsOf(o.shape, PageRef(page.page_number, "a"),
                                  page.page_number))
    ELSE ErrorMarker(page.image_path)

structured_ocr_cells(page, o) ==
    IF o.ok
    THEN CellsOf(o.shape, PageRef(page.page_number, "a"), page.page_number)
    ELSE EmptyHeap

(***************************************************************************)
(* The merge of extract_data (data_extractor.py lines 94-112)              *)
(***************************************************************************)
HasKey(data, key) == \E j \in 1..Len(data) : data[j].k = key
KeyIndex(data, key) == CHOOSE j \in 1..Len(data) : data[j].k = key

\* MergeEntry with a new key put in front of the keys already merged.
MergeEntryNewKeyFirst(st, key, value) ==
    IF HasKey(st.data, key)
    THEN LET j == KeyIndex(st.data, key)
             cur == st.data[j].v
         IN IF IsList(cur)
            THEN IF IsList(value)
                 THEN [st EXCEPT !.heap[cur.ref] = @ \o st.heap[value.ref]]
                 ELSE [st EXCEPT !.heap[cur.ref] = Append(@, value)]
            ELSE [data |-> [st.data EXCEPT ![j].v = ListRef(MergedRef(key))],
                  heap |-> (MergedRef(key) :> <<cur, value>>) @@ st.heap]
    ELSE [st EXCEPT !.data = <<Entry(key, value)>> \o @]

\* MergeEntry with the promotion building [value, existing].
MergeEntryPromoteReversed(st, key, value) ==
    IF HasKey(st.data, key)
    THEN LET j == KeyIndex(st.data, key)
             cur == st.data[j].v
         IN IF IsList(cur)
            THEN IF IsList(value)
                 THEN [st EXCEPT !.heap[cur.ref] = @ \o st.heap[value.ref]]
                 ELSE [st EXCEPT !.heap[cur.ref] = Append(@, value)]
            ELSE [data |-> [st.data EXCEPT ![j].v = ListRef(MergedRef(key))],
                  heap |-> (MergedRef(key) :> <<value, cur>>) @@ st.heap]
    ELSE [st EXCEPT !.data = Append(@, Entry(key, value))]

\* MergeEntry appending a list value as one nested element.
MergeEntryListNested(st, key, value) ==
    IF HasKey(st.data, key)
    THEN LET j == KeyIndex(st.data, key)
             cur == st.data[j].v
         IN IF IsList(cur)
            THEN IF IsList(value)
                 THEN [st EXCEPT !.heap[cur.ref] = Append(@, value)]
                 ELSE [st EXCEPT !.heap[cur.ref] = Append(@, value)]
            ELSE [data |-> [st.data EXCEPT ![j].v = ListRef(MergedRef(key))],
                  heap |-> (MergedRef(key) :> <<cur, value>>) @@ st.heap]
    ELSE [st EXCEPT !.data = Append(@, Entry(key, value))]

\* MergeEntry whose promotion flattens a list value.
MergeEntryPromoteFlattens(st, key, value) ==
    IF HasKey(st.data, key)
    THEN LET j == KeyIndex(st.data, key)
             cur == st.data[j].v
         IN IF IsList(cur)
            THEN IF IsList(value)
                 THEN [st EXCEPT !.heap[cur.ref] = @ \o st.heap[value.ref]]
                 ELSE [st EXCEPT !.heap[cur.ref] = Append(@, value)]
            ELSE [data |-> [st.data EXCEPT ![j].v = ListRef(MergedRef(key))],
                  heap |-> (MergedRef(key) :> (IF IsList(value) THEN <<cur>> \o st.heap[value.ref] ELSE <<cur, value>>)) @@ st.heap]
    ELSE [st EXCEPT !.data = Append(@, Entry(key, value))]

\* One (key, value) of a page merged into st = [data, heap].
MergeEntry(st, key, value) ==
    IF HasKey(st.data, key)
    THEN LET j == KeyIndex(st.data, key)
             cur == st.data[j].v
         IN IF IsList(cur)
            THEN IF IsList(value)
                 THEN [st EXCEPT !.heap[cur.ref] = @ \o st.heap[value.ref]]
                 ELSE [st EXCEPT !.heap[cur.ref] = Append(@, value)]
            ELSE [data |-> [st.data EXCEPT ![j].v = ListRef(MergedRef(key))],
                  heap |-> (MergedRef(key) :> <<cur, value>>) @@ st.heap]
    ELSE [st EXCEPT !.data = Append(@, Entry(key, value))]

RECURSIVE MergeItems(_, _)
MergeItems(st, items) ==
    IF items = <<>> THEN st
    ELSE MergeItems(MergeEntry(st, Head(items).k, Head(items).v), Tail(items))

\* MergePage starting the result afresh at a page without ocr_data.
MergePageResetsAtMissing(st, page) ==
    IF page.ocr_data # None
    THEN MergeItems(st, page.ocr_data.ocr_contents)
    ELSE [st EXCEPT !.data = <<>>]

\* MergePage skipping the records that carry the error marker as well.
MergePageSkipsMarker(st, page) ==
    IF page.ocr_data # None
       /\ ~(\E j \in 1..Len(page.ocr_data.ocr_contents) :
               page.ocr_data.ocr_contents[j].k = "error")
    THEN MergeItems(st, page.ocr_data.ocr_contents)
    ELSE st

\* One page: skipped when it has no ocr_data.
MergePage(st, page) ==
    IF page.ocr_data # None
    THEN MergeItems(st, page.ocr_data.ocr_contents)
    ELSE st

\* The pages in ascending page_number order.
ByPageNumber(pages) ==
    [i \in 1..Len(pages) |->
        CHOOSE p \in {pages[j] : j \in 1..Len(pages)} :
            Cardinality({j \in 1..Len(pages) : pages[j].page_number < p.page_number}) = i - 1]

\* MergePages visiting the pages in ascending page_number order.
RECURSIVE MergeInOrder(_, _)
MergeInOrder(st, pages) ==
    IF pages = <<>> THEN st
    ELSE MergeInOrder(MergePage(st, Head(pages)), Tail(pages))

MergePagesByPageNumber(st, pages) == MergeInOrder(st, ByPageNumber(pages))

\* The pages merged one after the other, in list order.
RECURSIVE MergePages(_, _)
MergePages(st, pages) ==
    IF pages = <<>> THEN st
    ELSE MergePages(MergePage(st, Head(pages)), Tail(pages))

(***************************************************************************)
(* Garbage: list objects nobody references any more leave the heap         *)
(***************************************************************************)
RefsOf(values) == {values[j].ref : j \in {x \in 1..Len(values) : IsList(values[x])}}

ValuesOf(contents) == [j \in 1..Len(contents) |-> contents[j].v]

RECURSIVE Closure(_, _)
Closure(refs, h) ==
    LET more == refs \cup UNION {RefsOf(h[r]) : r \in refs}
    IN IF more = refs THEN refs ELSE Closure(more, h)

Roots(pages, res) ==
    UNION {RefsOf(ValuesOf(pages[i].ocr_data.ocr_contents)) :
             i \in {x \in 1..Len(pages) : pages[x].ocr_data # None}}
    \cup (IF res = None THEN {} ELSE RefsOf(ValuesOf(res.extracted_data)))

Collect(h, pages, res) ==
    LET live == Closure(Roots(pages, res), h)
    IN [r \in live |-> h[r]]

(***************************************************************************)
(* State                                                                   *)
(***************************************************************************)
\* DataExtractor.prompts as _load_prompts filled it, and the names a caller
\* may ask for.
Prompts == {"facture"}
PromptNames == {"facture", "inconnu"}

PdfFile == "document.pdf"

\* No operation outside the merge has been called.
NoCall == op = "none" /\ arg = None /\ ret = None /\ env = None

\* convert_pdf_to_images: pages 1..n in page order, none recognized yet.
convert_pdf_to_images(n) == [i \in 1..n |-> PDFPage(i, ImagePath(i), None)]

Init ==
    /\ \E n \in 0..MaxPages : pdf_pages = convert_pdf_to_images(n)
    /\ heap = EmptyHeap
    /\ ocr_processor \in BOOLEAN
    /\ result = None
    /\ outcome = "none"
    /\ calls = 0
    /\ merge_heap = EmptyHeap
    /\ NoCall

(***************************************************************************)
(* Recognition of one page without a prompt: page.ocr_data =               *)
(* structured_ocr(page.image_path), before any extraction was asked.       *)
(***************************************************************************)
RecognizePage ==
    /\ calls = 0
    /\ \E i \in 1..Len(pdf_pages), o \in Outcomes :
          /\ pdf_pages[i].ocr_data = None
          /\ pdf_pages' = [pdf_pages EXCEPT ![i].ocr_data = structured_ocr(pdf_pages[i], o)]
          /\ heap' = structured_ocr_cells(pdf_pages[i], o) @@ heap
    /\ UNCHANGED <<ocr_processor, result, outcome, calls, merge_heap>>
    /\ UNCHANGED callVars

(***************************************************************************)
(* process_pdf_pages(pdf_pages, prompt_name) with a prompt                 *)
(***************************************************************************)
\* The combined record the structuring call returns when it succeeds.
CombinedShapes == {[layout |-> "a", kind |-> "list"], [layout |-> "ab", kind |-> "scalar"]}

CombinedRecord(shape) == StructuredOCR("combined", ContentsOf(shape, CombinedRef("a"), 0))

\* The per-page outcomes of the individual processing that follows a failed
\* combined call.
FallbackOutcomes ==
    {o \in Outcomes : ~o.ok \/ o.shape = [layout |-> "a", kind |-> "list"]}

\* ProcessCombined storing the combined record in every page.
ProcessCombinedAllPages(pages, h, shape) ==
    [returned |-> CombinedRecord(shape),
     pages |-> [i \in 1..Len(pages) |-> [pages[i] EXCEPT !.ocr_data = CombinedRecord(shape)]],
     heap |-> CellsOf(shape, CombinedRef("a"), 0) @@ h]

\* lines 189-225: the combined call succeeded.
ProcessCombined(pages, h, shape) ==
    [returned |-> CombinedRecord(shape),
     pages |-> [pages EXCEPT ![1].ocr_data = CombinedRecord(shape)],
     heap |-> CellsOf(shape, CombinedRef("a"), 0) @@ h]

\* ProcessIndividually leaving a page whose recognition failed as it was.
ProcessIndividuallySkipsFailed(pages, h, outs) ==
    [returned |-> None,
     pages |-> [i \in 1..Len(pages) |->
                  IF outs[i].ok
                  THEN [pages[i] EXCEPT !.ocr_data = structured_ocr(pages[i], outs[i])]
                  ELSE pages[i]],
     heap |-> [r \in DOMAIN h \cup UNION {DOMAIN structured_ocr_cells(pages[i], outs[i]) :
                                            i \in 1..Len(pages)} |->
                 IF \E i \in 1..Len(pages) : r \in DOMAIN structured_ocr_cells(pages[i], outs[i])
                 THEN ListElems(r.n)
                 ELSE h[r]]]

\* lines 227-236: the combined call failed, every page is processed alone.
ProcessIndividually(pages, h, outs) ==
    [returned |-> None,
     pages |-> [i \in 1..Len(pages) |->
                  [pages[i] EXCEPT !.ocr_data = structured_ocr(pages[i], outs[i])]],
     heap |-> [r \in DOMAIN h \cup UNION {DOMAIN structured_ocr_cells(pages[i], outs[i]) :
                                            i \in 1..Len(pages)} |->
                 IF \E i \in 1..Len(pages) : r \in DOMAIN structured_ocr_cells(pages[i], outs[i])
                 THEN ListElems(r.n)
                 ELSE h[r]]]

(***************************************************************************)
(* DataExtractor.extract_data                                              *)
(***************************************************************************)
\* lines 94-118: the merge of the records the pages hold, and its result.
MergeResult(pages, h, prompt_name) ==
    LET st == MergePages([data |-> <<>>, heap |-> h], pages)
    IN [res |-> ExtractionResult(PdfFile, prompt_name, st.data), heap |-> st.heap]

\* extract_data looking the prompt up only after process_pdf_pages ran.
ExtractDataUnknownPromptChecksLate ==
    /\ calls < MaxCalls
    /\ \E prompt_name \in PromptNames \ Prompts, shape \in CombinedShapes :
          LET p == IF ocr_processor /\ pdf_pages # <<>>
                   THEN ProcessCombined(pdf_pages, heap, shape)
                   ELSE [pages |-> pdf_pages, heap |-> heap]
          IN /\ pdf_pages' = p.pages
             /\ heap' = Collect(p.heap, p.pages, result)
    /\ outcome' = "ValueError"
    /\ calls' = calls + 1
    /\ UNCHANGED <<ocr_processor, result, merge_heap>>
    /\ UNCHANGED callVars

\* lines 76-77
ExtractDataUnknownPrompt ==
    /\ calls < MaxCalls
    /\ \E prompt_name \in PromptNames \ Prompts :
          /\ outcome' = "ValueError"
          /\ calls' = calls + 1
    /\ UNCHANGED <<pdf_pages, heap, ocr_processor, result, merge_heap>>
    /\ UNCHANGED callVars

\* lines 81-91
ExtractDataCombined ==
    /\ calls < MaxCalls
    /\ ocr_processor
    /\ pdf_pages # <<>>
    /\ \E prompt_name \in Prompts, shape \in CombinedShapes :
          LET p == ProcessCombined(pdf_pages, heap, shape)
              res == ExtractionResult(PdfFile, prompt_name, p.returned.ocr_contents)
          IN /\ pdf_pages' = p.pages
             /\ result' = res
             /\ heap' = Collect(p.heap, p.pages, res)
    /\ outcome' = "combined"
    /\ calls' = calls + 1
    /\ UNCHANGED <<ocr_processor, merge_heap>>
    /\ UNCHANGED callVars

\* lines 81-86 and 94-118: the combined call failed
ExtractDataFallback ==
    /\ calls < MaxCalls
    /\ ocr_processor
    /\ pdf_pages # <<>>
    /\ \E prompt_name \in Prompts, outs \in [1..Len(pdf_pages) -> FallbackOutcomes] :
          LET p == ProcessIndividually(pdf_pages, heap, outs)
              m == MergeResult(p.pages, p.heap, prompt_name)
          IN /\ pdf_pages' = p.pages
             /\ merge_heap' = Collect(p.heap, p.pages, None)
             /\ result' = m.res
             /\ heap' = Collect(m.heap, p.pages, m.res)
    /\ outcome' = "fallback"
    /\ calls' = calls + 1
    /\ UNCHANGED ocr_processor
    /\ UNCHANGED callVars

\* lines 94-118 alone: no processor, or process_pdf_pages returned [] for
\* an empty page list
ExtractDataMerge ==
    /\ calls < MaxCalls
    /\ ~ocr_processor \/ pdf_pages = <<>>
    /\ \E prompt_name \in Prompts :
          LET m == MergeResult(pdf_pages, heap, prompt_name)
          IN /\ merge_heap' = Collect(heap, pdf_pages, None)
             /\ result' = m.res
             /\ heap' = Collect(m.heap, pdf_pages, m.res)
    /\ outcome' = "merged"
    /\ calls' = calls + 1
    /\ UNCHANGED <<pdf_pages, ocr_processor>>
    /\ UNCHANGED callVars

extract_data ==
    \/ ExtractDataUnknownPrompt
    \/ ExtractDataCombined
    \/ ExtractDataFallback
    \/ ExtractDataMerge

Next == RecognizePage \/ extract_data

Spec == Init /\ [][Next]_vars

(***************************************************************************)
(* The same program with a caller that hands extract_data the pages in any *)
(* list order.                                                             *)
(***************************************************************************)
ListOrders(n) == {f \in [1..n -> 1..n] : \A i, j \in 1..n : f[i] = f[j] => i = j}

InitAnyOrder ==
    /\ \E n \in 0..MaxShuffledPages : \E f \in ListOrders(n) :
          pdf_pages = [i \in 1..n |-> convert_pdf_to_images(n)[f[i]]]
    /\ heap = EmptyHeap
    /\ ocr_processor \in BOOLEAN
    /\ result = None
    /\ outcome = "none"
    /\ calls = 0
    /\ merge_heap = EmptyHeap
    /\ NoCall

SpecAnyOrder == InitAnyOrder /\ [][Next]_vars

(***************************************************************************)
(* Vocabulary of the properties                                            *)
(***************************************************************************)
\* The last extract_data call returned the merge of the records pdf_pages
\* hold; merge_heap is then the heap that merge started from.
Merged == outcome \in {"merged", "fallback"}

Keys(contents) == [j \in 1..Len(contents) |-> contents[j].k]
KeySet(contents) == {contents[j].k : j \in 1..Len(contents)}
Lookup(contents, key) == contents[KeyIndex(contents, key)].v

MergedData == DerefContents(result.extracted_data, heap)

HasData(page) == page.ocr_data # None
PagesWithData(pages) == SelectSeq(pages, HasData)

\* All (key, value) items of the pages, page after page, values by content.
RECURSIVE ItemsOf(_, _)
ItemsOf(pages, h) ==
    IF pages = <<>> THEN <<>>
    ELSE (IF HasData(Head(pages))
          THEN DerefContents(Head(pages).ocr_data.ocr_contents, h)
          ELSE <<>>) \o ItemsOf(Tail(pages), h)

\* The keys of a key sequence in order of first appearance.
RECURSIVE FirstSeen(_)
FirstSeen(keys) ==
    IF keys = <<>> THEN <<>>
    ELSE LET front == FirstSeen(SubSeq(keys, 1, Len(keys) - 1))
             last == keys[Len(keys)]
         IN IF \E j \in 1..Len(front) : front[j] = last THEN front
            ELSE Append(front, last)

\* The values the pages supply for a key, in the order of the pages.
Occurrences(pages, h, key) ==
    LET items == ItemsOf(pages, h)
        hits == SelectSeq(items, LAMBDA e : e.k = key)
    IN [j \in 1..Len(hits) |-> hits[j].v]

IsPrefix(s, t) == Len(s) <= Len(t) /\ SubSeq(t, 1, Len(s)) = s

ListOf(elems) == [t |-> "list", elems |-> elems]
Flat(value) == IF IsList(value) THEN value.elems ELSE <<value>>

RECURSIVE FlatAll(_)
FlatAll(values) ==
    IF values = <<>> THEN <<>> ELSE Flat(Head(values)) \o FlatAll(Tail(values))

\* The merge of the first i pages of a list, taken from heap h, by content.
MergeOfFirst(pages, h, i) ==
    LET st == MergePages([data |-> <<>>, heap |-> h], SubSeq(pages, 1, i))
    IN DerefContents(st.data, st.heap)

ExpectedMerge(occ) ==
    IF Len(occ) = 1 THEN occ[1]
    ELSE IF IsList(occ[1])
         THEN ListOf(occ[1].elems \o FlatAll(Tail(occ)))
         ELSE ListOf(<<occ[1], occ[2]>> \o FlatAll(SubSeq(occ, 3, Len(occ))))

\* The merged data after the first i pages of the last merge; for all the
\* pages it is the data extract_data returned.
PrefixData(i) ==
    IF i = Len(pdf_pages) THEN MergedData ELSE MergeOfFirst(pdf_pages, merge_heap, i)

PageItems(i) ==
    IF HasData(pdf_pages[i])
    THEN DerefContents(pdf_pages[i].ocr_data.ocr_contents, merge_heap)
    ELSE <<>>

C3_ScalarPromotion ==
    Merged =>
        \A i \in 1..Len(pdf_pages) : \A k \in KeySet(PrefixData(i)) :
           LET occ == Occurrences(SubSeq(pdf_pages, 1, i), merge_heap, k)
               v == Lookup(PrefixData(i), k)
           IN (\A j \in 1..Len(occ) : occ[j].t = "scalar") =>
                 /\ Len(occ) = 1 => v = occ[1]
                 /\ Len(occ) >= 2 => v = ListOf(occ)
                 /\ IsList(v) <=> Len(occ) >= 2
                 /\ IsList(v) => Len(v.elems) = Len(occ)

\* Three pages each supplied key a with a scalar.
C3_Witness ==
    /\ outcome = "merged"
    /\ Len(pdf_pages) = 3
    /\ HasKey(result.extracted_data, "a")
    /\ Lookup(MergedData, "a") = ListOf(<<ScalarOf(1), ScalarOf(2), ScalarOf(3)>>)

(***************************************************************************)
(* C4                                                                      *)
(***************************************************************************)
\* C4: when the merged value of a key is a list and the next page supplies
\* the key, the merged list becomes the old elements followed by the
\* elements of a list value, or by a non-list value as one element.
C4_ListExtension ==
    Merged =>
        \A i \in 2..Len(pdf_pages) : \A j \in 1..Len(PageItems(i)) :
           LET e == PageItems(i)[j]
               before == PrefixData(i - 1)
           IN (HasKey(before, e.k) /\ IsList(Lookup(before, e.k))) =>
                 Lookup(PrefixData(i), e.k)
                   = ListOf(Lookup(before, e.k).elems \o Flat(e.v))

\* A list, then a list, then a scalar for key a.
C4_Witness ==
    /\ outcome = "merged"
    /\ Len(pdf_pages) = 3
    /\ HasKey(result.extracted_data, "a")
    /\ Lookup(MergedData, "a")
         = ListOf(ListElems(1) \o ListElems(2) \o <<ScalarOf(3)>>)

(***************************************************************************)
(* C5                                                                      *)
(***************************************************************************)
\* C5: when the merged value of a key is not a list and the next page
\* supplies the key, the merged value becomes the two-element list of the
\* old value and the new value, the new value whole even when it is a list.
C5_MixedShapePromotion ==
    Merged =>
        \A i \in 2..Len(pdf_pages) : \A j \in 1..Len(PageItems(i)) :
           LET e == PageItems(i)[j]
               before == PrefixData(i - 1)
           IN (HasKey(before, e.k) /\ ~IsList(Lookup(before, e.k))) =>
                 Lookup(PrefixData(i), e.k) = ListOf(<<Lookup(before, e.k), e.v>>)

\* A mapping on page 1 and a list on page 2: the list is nested.
C5_Witness ==
    /\ outcome = "merged"
    /\ Len(pdf_pages) = 2
    /\ HasKey(result.extracted_data, "a")
    /\ Lookup(MergedData, "a") = ListOf(<<Mapping, ListOf(ListElems(2))>>)

(***************************************************************************)
(* C6                                                                      *)
(***************************************************************************)
\* C6: the merge of a page list is the merge of its pages that have
\* ocr_data, and it is an ExtractionResult with empty extracted_data when no
\* page has ocr_data.
C6_MissingDataContributesNothing ==
    Merged =>
        /\ result # None
        /\ MergedData = MergeOfFirst(PagesWithData(pdf_pages), merge_heap,
                                     Len(PagesWithData(pdf_pages)))
        /\ PagesWithData(pdf_pages) = <<>> => result.extracted_data = <<>>

\* Page 2 of three has no ocr_data, pages 1 and 3 were merged.
C6_Witness ==
    /\ outcome = "merged"
    /\ Len(pdf_pages) = 3
    /\ HasData(pdf_pages[1]) /\ ~HasData(pdf_pages[2]) /\ HasData(pdf_pages[3])
    /\ HasKey(result.extracted_data, "a")
    /\ Lookup(MergedData, "a") = ListOf(<<ScalarOf(1), ScalarOf(3)>>)

(***************************************************************************)
(* C7                                                                      *)
(***************************************************************************)
\* C7 as claimed: after extract_data merged the pages, the ocr_contents of
\* every page, the lists inside it included, is what it was when the merge
\* began.
C7_PagesUnchangedByMerge ==
    outcome = "merged" => ItemsOf(pdf_pages, heap) = ItemsOf(pdf_pages, merge_heap)

(***************************************************************************)
(* C8                                                                      *)
(***************************************************************************)
\* C8 as claimed: a merge of the page list that directly follows a merge of
\* the same list returns equal extracted_data.
C8_RepeatedMergeSameResult ==
    [][(outcome = "merged" /\ outcome' = "merged" /\ calls' = calls + 1)
          => MergedData' = MergedData]_vars

(***************************************************************************)
(* C9                                                                      *)
(***************************************************************************)
\* C9: when the combined recognition succeeds, extracted_data is the
\* combined record's ocr_contents whatever the pages held, the first page's
\* ocr_data is the combined record and every other page is left as it was.
C9_CombinedBypassesMerge ==
    [][(outcome' = "combined" /\ calls' = calls + 1) =>
          /\ \E shape \in CombinedShapes :
                /\ pdf_pages'[1].ocr_data = CombinedRecord(shape)
                /\ result'.extracted_data = CombinedRecord(shape).ocr_contents
                /\ MergedData' = DerefContents(CombinedRecord(shape).ocr_contents,
                                               CellsOf(shape, CombinedRef("a"), 0))
          /\ Len(pdf_pages') = Len(pdf_pages)
          /\ \A i \in 2..Len(pdf_pages) :
                /\ pdf_pages'[i] = pdf_pages[i]
                /\ ItemsOf(<<pdf_pages'[i]>>, heap') = ItemsOf(<<pdf_pages[i]>>, heap)]_vars

\* The combined record went to page 1 while page 2 kept its own record.
C9_Witness ==
    /\ outcome = "combined"
    /\ Len(pdf_pages) >= 2
    /\ pdf_pages[1].ocr_data.file_name = "combined"
    /\ result.extracted_data = pdf_pages[1].ocr_data.ocr_contents
    /\ HasData(pdf_pages[2])
    /\ pdf_pages[2].ocr_data.file_name = ImagePath(2)
    /\ Keys(pdf_pages[2].ocr_data.ocr_contents) = <<"b">>
    /\ Keys(result.extracted_data) = <<"a">>

(***************************************************************************)
(* C10                                                                     *)
(***************************************************************************)
IsErrorMarker(page) ==
    HasData(page) /\ Keys(page.ocr_data.ocr_contents) = <<"error", "file", "message">>

Degraded(page) == ~HasData(page) \/ IsErrorMarker(page)
NotDegraded(page) == ~Degraded(page)

NoPrompt == ""

PromptText(prompt_name) == "prompt " \o prompt_name

Returned(value) == [raised |-> "none", value |-> value]
Raised(error) == [raised |-> error, value |-> "none"]

\* lines 63-68
get_extraction_prompt(prompt_dir, prompt_name) ==
    IF prompt_name \notin prompt_dir
    THEN Raised("FileNotFoundError")
    ELSE Returned(PromptText(prompt_name))

\* structured_ocr lines 101-106 and process_pdf_pages lines 183-187: the
\* instruction text of the chat request; FileNotFoundError is caught there.
FieldsExtractionText(prompt_dir, prompt_name) ==
    IF prompt_name = NoPrompt
    THEN ""
    ELSE LET r == get_extraction_prompt(prompt_dir, prompt_name)
         IN IF r.raised = "FileNotFoundError"
            THEN ""
            ELSE "Extrait les champs suivants: " \o r.value

ChatRequest(prompt_name, text) == [prompt_name |-> prompt_name, fields_extraction_text |-> text]

\* How far the requests of one call get.
ApiOutcomes == {"ocr failed", "chat failed", "ok"}

\* structured_ocr lines 92-141: what it returns and the chat request it sends.
StructuredOcrCall(prompt_dir, prompt_name, api) ==
    LET text == FieldsExtractionText(prompt_dir, prompt_name)
    IN IF api = "ocr failed"
       THEN [ret |-> Returned("error marker"), sent |-> {}]
       ELSE [ret |-> Returned(IF api = "ok" THEN "StructuredOCR" ELSE "error marker"),
             sent |-> {ChatRequest(prompt_name, text)}]

\* process_pdf_pages lines 155-236 on n pages: with a prompt the combined
\* request is sent whatever the recognition of the pages gave (lines 176-177);
\* when it fails, and when there is no prompt, every page goes through
\* structured_ocr.
ProcessPdfPagesCall(prompt_dir, prompt_name, n, api) ==
    LET text == FieldsExtractionText(prompt_dir, prompt_name)
        each == StructuredOcrCall(prompt_dir, prompt_name, api)
    IN IF n = 0
       THEN [ret |-> Returned("[]"), sent |-> {}]
       ELSE IF prompt_name = NoPrompt
       THEN [ret |-> Returned("pages"), sent |-> each.sent]
       ELSE IF api = "ok"
       THEN [ret |-> Returned("StructuredOCR"),
             sent |-> {ChatRequest(prompt_name, text)}]
       ELSE [ret |-> Returned("pages"),
             sent |-> {ChatRequest(prompt_name, text)} \cup each.sent]

\* extract_data lines 76-118 with a processor.
ExtractDataCall(prompt_dir, prompt_name, n, api) ==
    IF prompt_name \notin Prompts
    THEN [ret |-> Raised("ValueError"), sent |-> {}]
    ELSE LET p == ProcessPdfPagesCall(prompt_dir, prompt_name, n, api)
         IN [ret |-> Returned("ExtractionResult"), sent |-> p.sent]

PromptArg(prompt_name, n) == [prompt_name |-> prompt_name, pages |-> n]

MergeIdle ==
    /\ pdf_pages = <<>>
    /\ heap = EmptyHeap
    /\ ocr_processor = TRUE
    /\ result = None
    /\ outcome = "none"
    /\ calls = 0
    /\ merge_heap = EmptyHeap

InitPrompts ==
    /\ MergeIdle
    /\ op = "none"
    /\ arg = PromptArg(NoPrompt, 0)
    /\ ret = Returned("none")
    /\ \E files \in SUBSET PromptNames : env = [prompt_dir |-> files, sent |-> {}]

CallGetExtractionPrompt ==
    /\ \E prompt_name \in PromptNames :
          /\ arg' = PromptArg(prompt_name, 0)
          /\ ret' = get_extraction_prompt(env.prompt_dir, prompt_name)
    /\ op' = "get_extraction_prompt"
    /\ UNCHANGED env
    /\ UNCHANGED mergeVars

CallStructuredOcr ==
    /\ \E prompt_name \in PromptNames \cup {NoPrompt}, api \in ApiOutcomes :
          LET c == StructuredOcrCall(env.prompt_dir, prompt_name, api)
          IN /\ arg' = PromptArg(prompt_name, 1)
             /\ ret' = c.ret
             /\ env' = [env EXCEPT !.sent = @ \cup c.sent]
    /\ op' = "structured_ocr"
    /\ UNCHANGED mergeVars

CallProcessPdfPages ==
    /\ \E prompt_name \in PromptNames \cup {NoPrompt}, n \in 0..1, api \in ApiOutcomes :
          LET c == ProcessPdfPagesCall(env.prompt_dir, prompt_name, n, api)
          IN /\ arg' = PromptArg(prompt_name, n)
             /\ ret' = c.ret
             /\ env' = [env EXCEPT !.sent = @ \cup c.sent]
    /\ op' = "process_pdf_pages"
    /\ UNCHANGED mergeVars

CallExtractData ==
    /\ \E prompt_name \in PromptNames, n \in 0..1, api \in ApiOutcomes :
          LET c == ExtractDataCall(env.prompt_dir, prompt_name, n, api)
          IN /\ arg' = PromptArg(prompt_name, n)
             /\ ret' = c.ret
             /\ env' = [env EXCEPT !.sent = @ \cup c.sent]
    /\ op' = "extract_data"
    /\ UNCHANGED mergeVars

NextPrompts ==
    \/ CallGetExtractionPrompt
    \/ CallStructuredOcr
    \/ CallProcessPdfPages
    \/ CallExtractData

SpecPrompts == InitPrompts /\ [][NextPrompts]_vars

(***************************************************************************)
(* C11                                                                     *)
(***************************************************************************)
\* The prompt name of the last call is unknown to the operation called:
\* extract_data looks it up in DataExtractor.prompts, the processor in its
\* prompt directory.
UnknownPrompt ==
    /\ op \in {"get_extraction_prompt", "structured_ocr", "process_pdf_pages", "extract_data"}
    /\ arg.prompt_name # NoPrompt
    /\ IF op = "extract_data"
       THEN arg.prompt_name \notin Prompts
       ELSE arg.prompt_name \notin env.prompt_dir

\* C11 as claimed: a call of extract_data, get_extraction_prompt,
\* structured_ocr or process_pdf_pages with an unknown prompt name ends in a
\* not-found error, and no chat request that was asked with a prompt name
\* carries an empty instruction text.
C11_UnknownPromptAlwaysSurfaced ==
    /\ UnknownPrompt /\ (op = "process_pdf_pages" => arg.pages > 0)
          => ret.raised \in {"ValueError", "FileNotFoundError"}
    /\ \A r \in env.sent : r.prompt_name # NoPrompt => r.fields_extraction_text # ""

(***************************************************************************)
(* Projection to tables (json_to_dataframe.py)                             *)
(*                                                                         *)
(* The projection reads its input and writes nowhere into it, so values    *)
(* are taken by content here: a list is List(elems).  A DataFrame is its   *)
(* column labels and its rows, a row holding one cell per column; the      *)
(* dictionary of DataFrames is a sequence of entries in insertion order.   *)
(***************************************************************************)
List(elems) == [t |-> "list", elems |-> elems]
NaN == [t |-> "NaN"]

IsDict(value) == value.t = "dict"
IsScalar(value) == value.t = "scalar"

Table(columns, rows) == [columns |-> columns, rows |-> rows]

Range(seq) == {seq[j] : j \in 1..Len(seq)}

\* The column labels pandas gives a list of mappings: the keys of the
\* elements, each at the place of its first appearance.
RECURSIVE ColumnsOf(_)
ColumnsOf(records) ==
    IF records = <<>> THEN <<>>
    ELSE LET n == Len(records)
             before == ColumnsOf(SubSeq(records, 1, n - 1))
             keys == [j \in 1..Len(records[n].d) |-> records[n].d[j].k]
         IN before \o SelectSeq(keys, LAMBDA k : k \notin Range(before))

\* pd.DataFrame(records) for a list of mappings: one row per element, in list
\* order; a key an element lacks is NaN in its row.
DataFrame(records) ==
    LET columns == ColumnsOf(records)
    IN Table(columns,
             [i \in 1..Len(records) |->
                [c \in 1..Len(columns) |->
                   IF HasKey(records[i].d, columns[c])
                   THEN records[i].d[KeyIndex(records[i].d, columns[c])].v
                   ELSE NaN]])

\* pd.DataFrame()
EmptyDataFrame == Table(<<>>, <<>>)

\* df[key] = [value]: a frame without index takes the index of the one-element
\* list; a frame with an index of another length refuses it (ValueError); a
\* column of that label is replaced where it stands, a new one comes last.
SetColumn(df, key, value) ==
    IF df = EmptyDataFrame
    THEN Returned(Table(<<key>>, << <<value>> >>))
    ELSE IF Len(df.rows) # 1
    THEN Raised("ValueError")
    ELSE IF key \in Range(df.columns)
    THEN LET c == CHOOSE j \in 1..Len(df.columns) : df.columns[j] = key
         IN Returned(Table(df.columns, << [df.rows[1] EXCEPT ![c] = value] >>))
    ELSE Returned(Table(Append(df.columns, key), << Append(df.rows[1], value) >>))

\* dataframes[name] = df
Put(dataframes, name, df) ==
    IF HasKey(dataframes, name)
    THEN [dataframes EXCEPT ![KeyIndex(dataframes, name)].v = df]
    ELSE Append(dataframes, Entry(name, df))

GenericLabel == "Informations générales"

\* line 47
IsRecordList(value) ==
    IsList(value) /\ Len(value.elems) > 0 /\ IsDict(value.elems[1])

\* lines 46-62: one top-level key of extracted_data.
ProjectEntry(dataframes, key, value) ==
    IF IsRecordList(value)
    THEN Returned(Put(dataframes, key, DataFrame(value.elems)))
    ELSE IF IsDict(value)
    THEN Returned(Put(dataframes, key, DataFrame(<<value>>)))
    ELSE LET dfs == IF HasKey(dataframes, GenericLabel) THEN dataframes
                    ELSE Put(dataframes, GenericLabel, EmptyDataFrame)
             col == SetColumn(dfs[KeyIndex(dfs, GenericLabel)].v, key, value)
         IN IF col.raised # "none" THEN col
            ELSE Returned(Put(dfs, GenericLabel, col.value))

\* lines 45-62: the loop over extracted_data.items().
RECURSIVE ProjectItems(_, _)
ProjectItems(r, items) ==
    IF items = <<>> \/ r.raised # "none" THEN r
    ELSE ProjectItems(ProjectEntry(r.value, Head(items).k, Head(items).v), Tail(items))

\* line 39
Placeholder ==
    <<Entry("Erreur",
            Table(<<"Message">>,
                  << <<Scalar("Aucune donnée extraite ou format incorrect")>> >>))>>

\* create_dataframe_from_extraction_result without the check of line 37: an
\* empty mapping gives no table at all.
CreateDataframesUnchecked(extraction_result) ==
    ProjectItems(Returned(<<>>), extraction_result.extracted_data.d)

\* lines 34-71.  After the loop dataframes is empty only when extracted_data
\* was, so lines 65-69 add nothing.
create_dataframe_from_extraction_result(extraction_result) ==
    LET extracted_data == extraction_result.extracted_data
    IN IF IsScalar(extracted_data) \/ extracted_data.d = <<>>
       THEN Returned(Placeholder)
       ELSE ProjectItems(Returned(<<>>), extracted_data.d)

(***************************************************************************)
(* Record construction (models.py): pydantic checks every field against    *)
(* its annotation and raises ValidationError when a value does not fit.    *)
(* The fields are given as tagged values; a mapping is Dict(entries).      *)
(***************************************************************************)
Integer(n) == [t |-> "int", n |-> n]

IsInt(value) == value.t = "int"

\* PDFPage(page_number=..., image_path=..., ocr_data=...), lines 19-25
NewPDFPage(page_number, image_path, ocr_data) ==
    IF IsInt(page_number) /\ IsScalar(image_path)
    THEN Returned(PDFPage(page_number.n, image_path.s, ocr_data))
    ELSE Raised("ValidationError")

\* StructuredOCR(file_name=..., ocr_contents=...), lines 11-16
NewStructuredOCR(file_name, ocr_contents) ==
    IF IsScalar(file_name) /\ IsDict(ocr_contents)
    THEN Returned(StructuredOCR(file_name.s, ocr_contents))
    ELSE Raised("ValidationError")

\* ExtractionResult(pdf_file=..., prompt_name=..., extracted_data=...),
\* lines 28-34
NewExtractionResult(pdf_file, prompt_name, extracted_data) ==
    IF IsScalar(pdf_file) /\ IsScalar(prompt_name) /\ IsDict(extracted_data)
    THEN Returned(ExtractionResult(pdf_file.s, prompt_name.s, extracted_data))
    ELSE Raised("ValidationError")

(***************************************************************************)
(* extract_dataframes_from_ocr_json, lines 199-228                         *)
(* ocr_result is the argument with its Python type.                        *)
(***************************************************************************)
Typed(type, value) == [type |-> type, value |-> value]

ToExtractionResult(ocr_result) ==
    CASE ocr_result.type = "StructuredOCR" ->
           NewExtractionResult(Scalar("document.pdf"), Scalar("default"),
                               ocr_result.value.ocr_contents)
      [] ocr_result.type = "dict" ->
           LET d == ocr_result.value.d
           IN IF HasKey(d, "file_name") /\ HasKey(d, "ocr_contents")
              THEN NewExtractionResult(d[KeyIndex(d, "file_name")].v, Scalar("default"),
                                       d[KeyIndex(d, "ocr_contents")].v)
              ELSE NewExtractionResult(Scalar("document.pdf"), Scalar("default"),
                                       ocr_result.value)
      [] ocr_result.type = "ExtractionResult" -> Returned(ocr_result.value)
      [] OTHER -> Raised("TypeError")

extract_dataframes_from_ocr_json(ocr_result) ==
    LET extraction_result == ToExtractionResult(ocr_result)
    IN IF extraction_result.raised # "none"
       THEN extraction_result
       ELSE create_dataframe_from_extraction_result(extraction_result.value)

(***************************************************************************)
(* The data handed to the projection                                       *)
(***************************************************************************)
\* Largest number of top-level keys of a mapping.
MaxKeys == 2

TopKeys == {"ref", "lignes", GenericLabel}

\* The values a top-level key can hold; every scalar in them is named after
\* the key and its place, so no two leaves of a mapping are equal.
ValueShapes ==
    {"scalar", "empty list", "scalars", "scalar then mapping",
     "mapping", "nested mapping", "records", "record"}

Leaf(key, place) == Scalar(key \o "." \o place)

ValueAt(key, shape) ==
    CASE shape = "scalar" -> Leaf(key, "v")
      [] shape = "empty list" -> List(<<>>)
      [] shape = "scalars" -> List(<<Leaf(key, "1"), Leaf(key, "2")>>)
      [] shape = "scalar then mapping" ->
           List(<<Leaf(key, "1"), Dict(<<Entry("nom", Leaf(key, "2.nom"))>>)>>)
      [] shape = "mapping" ->
           Dict(<<Entry("nom", Leaf(key, "nom")), Entry("ville", Leaf(key, "ville"))>>)
      [] shape = "nested mapping" ->
           Dict(<<Entry("nom", Leaf(key, "nom")),
                  Entry("tags", List(<<Leaf(key, "tags.1"), Leaf(key, "tags.2")>>))>>)
      [] shape = "records" ->
           List(<<Dict(<<Entry("d", Leaf(key, "1.d")), Entry("q", Leaf(key, "1.q"))>>),
                  Dict(<<Entry("d", Leaf(key, "2.d")), Entry("p", Leaf(key, "2.p"))>>)>>)
      [] shape = "record" -> List(<<Dict(<<Entry("d", Leaf(key, "1.d"))>>)>>)

\* The mappings of at most MaxKeys distinct keys.
Mappings ==
    UNION {UNION {{Dict([j \in 1..n |-> Entry(ks[j], ValueAt(ks[j], shapes[j]))]) :
                     shapes \in [1..n -> ValueShapes]} :
                  ks \in {f \in [1..n -> TopKeys] : \A i, j \in 1..n : f[i] = f[j] => i = j}} :
           n \in 0..MaxKeys}

\* What is not a mapping: an error string.
ErrorString == Scalar("Erreur lors de l'extraction")

\* The arguments of the projection: a mapping in each of its wrappers, an
\* error string alone or as the contents of a raw wrapper.
OcrResults ==
    {Typed("ExtractionResult", ExtractionResult("document.pdf", "facture", data)) :
        data \in Mappings}
    \cup {Typed("StructuredOCR", StructuredOCR("page_001.jpeg", data)) : data \in Mappings}
    \cup {Typed("dict", data) : data \in Mappings}
    \cup {Typed("dict", Dict(<<Entry("file_name", Scalar("page_001.jpeg")),
                              Entry("ocr_contents", data)>>)) :
            data \in Mappings \cup {ErrorString}}
    \cup {Typed("str", ErrorString)}

InitProjection ==
    /\ MergeIdle
    /\ op = "none"
    /\ arg \in OcrResults
    /\ ret = Returned("none")
    /\ env = None

CallCreateDataframes ==
    /\ arg.type = "ExtractionResult"
    /\ op' = "create_dataframe_from_extraction_result"
    /\ ret' = create_dataframe_from_extraction_result(arg.value)
    /\ UNCHANGED <<arg, env>>
    /\ UNCHANGED mergeVars

CallExtractDataframes ==
    /\ op' = "extract_dataframes_from_ocr_json"
    /\ ret' = extract_dataframes_from_ocr_json(arg)
    /\ UNCHANGED <<arg, env>>
    /\ UNCHANGED mergeVars

NextProjection == CallCreateDataframes \/ CallExtractDataframes

SpecProjection == InitProjection /\ [][NextProjection]_vars

(***************************************************************************)
(* Vocabulary of the projection properties                                 *)
(***************************************************************************)
\* create_dataframe_from_extraction_result was called on a non-empty mapping.
Projected ==
    /\ op = "create_dataframe_from_extraction_result"
    /\ arg.value.extracted_data.d # <<>>

\* The top-level entries of that mapping, and the DataFrames returned.
Data == arg.value.extracted_data.d
Tables == ret.value

IsSimple(entry) == ~IsDict(entry.v) /\ ~IsRecordList(entry.v)

\* The scalars a value holds, at any depth.
RECURSIVE Leaves(_)
Leaves(value) ==
    CASE value.t = "scalar" -> {value.s}
      [] value.t = "list" -> UNION {Leaves(value.elems[j]) : j \in 1..Len(value.elems)}
      [] value.t = "dict" -> UNION {Leaves(value.d[j].v) : j \in 1..Len(value.d)}
      [] OTHER -> {}

\* The cells <<table, row, column>> in which a scalar is found.
CellsHolding(tables, leaf) ==
    UNION {UNION {{<<t, i, c>> : c \in {c \in 1..Len(tables[t].v.columns) :
                                          leaf \in Leaves(tables[t].v.rows[i][c])}} :
                  i \in 1..Len(tables[t].v.rows)} :
           t \in 1..Len(tables)}

TableLeaves(df) ==
    UNION {Leaves(df.rows[i][c]) : i \in 1..Len(df.rows), c \in 1..Len(df.columns)}

(***************************************************************************)
(* C12                                                                     *)
(***************************************************************************)
\* C12 as claimed: for a non-empty mapping the projection returns tables in
\* which every leaf scalar of the mapping is found in exactly one cell of
\* exactly one table, also when a top-level key is the generic label.
C12_EveryLeafInExactlyOneCell ==
    Projected =>
        /\ ret.raised = "none"
        /\ \A leaf \in Leaves(Dict(Data)) : Cardinality(CellsHolding(Tables, leaf)) = 1

(***************************************************************************)
(* C13                                                                     *)
(***************************************************************************)
\* C13 as claimed: every top-level key k holding a non-empty list whose first
\* element is a mapping has a table named k, with one row per element in list
\* order, the elements' keys as columns, an empty cell where an element lacks
\* the column, and none of k's values in the generic table.
C13_RecordListBecomesTable ==
    Projected =>
        /\ ret.raised = "none"
        /\ \A j \in 1..Len(Data) :
              IsRecordList(Data[j].v) =>
                 LET k == Data[j].k
                     elems == Data[j].v.elems
                 IN /\ HasKey(Tables, k)
                    /\ LET df == Lookup(Tables, k)
                       IN /\ Len(df.rows) = Len(elems)
                          /\ Range(df.columns)
                               = UNION {KeySet(elems[i].d) : i \in 1..Len(elems)}
                          /\ Len(df.columns) = Cardinality(Range(df.columns))
                          /\ \A i \in 1..Len(elems), c \in 1..Len(df.columns) :
                                df.rows[i][c] = IF HasKey(elems[i].d, df.columns[c])
                                                THEN Lookup(elems[i].d, df.columns[c])
                                                ELSE NaN
                    /\ (k # GenericLabel /\ HasKey(Tables, GenericLabel))
                          => Leaves(Data[j].v) \cap TableLeaves(Lookup(Tables, GenericLabel)) = {}

(***************************************************************************)
(* C14                                                                     *)
(***************************************************************************)
\* C14 as claimed: the top-level keys whose value is neither a mapping nor a
\* non-empty list starting with a mapping are the columns, in data order, of
\* the one-row table named by the generic label; when every top-level value
\* is a scalar that table is the only one.
C14_SimpleKeysInGenericTable ==
    Projected =>
        LET simple == SelectSeq(Data, IsSimple)
        IN /\ ret.raised = "none"
           /\ simple # <<>> =>
                 /\ HasKey(Tables, GenericLabel)
                 /\ LET df == Lookup(Tables, GenericLabel)
                    IN /\ df.columns = Keys(simple)
                       /\ Len(df.rows) = 1
                       /\ \A c \in 1..Len(simple) : df.rows[1][c] = simple[c].v
           /\ (\A j \in 1..Len(Data) : IsScalar(Data[j].v))
                 => Keys(Tables) = <<GenericLabel>>

(***************************************************************************)
(* C15                                                                     *)
(***************************************************************************)
\* C15 as claimed: every cell of every table the projection returns is a
\* scalar or empty, never a list or a mapping.
C15_NoNestedValueInACell ==
    (Projected /\ ret.raised = "none") =>
        \A t \in 1..Len(Tables) :
           \A i \in 1..Len(Tables[t].v.rows), c \in 1..Len(Tables[t].v.columns) :
              Tables[t].v.rows[i][c].t \in {"scalar", "NaN"}

(***************************************************************************)
(* C16                                                                     *)
(***************************************************************************)
\* The data the last call was handed, whatever wraps it.
HandedData ==
    CASE arg.type = "ExtractionResult" -> arg.value.extracted_data
      [] arg.type = "StructuredOCR" -> arg.value.ocr_contents
      [] arg.type = "dict" /\ HasKey(arg.value.d, "ocr_contents") ->
           Lookup(arg.value.d, "ocr_contents")
      [] OTHER -> arg.value

CalledProjection ==
    op \in {"create_dataframe_from_extraction_result", "extract_dataframes_from_ocr_json"}

MaxNameLen == 3

Chars == {"a", "A", "É", "7", " ", "_", "-", "/", "U+0130", "U+1D400"}

\* c.isalnum()
IsAlnum(c) == c \in {"a", "i", "é", "A", "É", "7", "U+0130", "U+1D400"}

\* c.swapcase() in the place of c.lower().
SwapCase(c) ==
    CASE c = "A" -> <<"a">>
      [] c = "a" -> <<"A">>
      [] c = "É" -> <<"é">>
      [] c = "é" -> <<"É">>
      [] c = "U+0130" -> <<"i", "U+0307">>
      [] OTHER -> <<c>>

\* c.lower()
Lower(c) ==
    CASE c = "A" -> <<"a">>
      [] c = "É" -> <<"é">>
      [] c = "U+0130" -> <<"i", "U+0307">>
      [] OTHER -> <<c>>

\* str.lower()
RECURSIVE LowerAll(_)
LowerAll(str) ==
    IF str = <<>> THEN <<>> ELSE Lower(Head(str)) \o LowerAll(Tail(str))

\* line 136
KeepOrUnderscore(name) ==
    [j \in 1..Len(name) |->
        IF IsAlnum(name[j]) \/ name[j] \in {" ", "_", "-"} THEN name[j] ELSE "_"]

\* str.replace(" ", "_")
ReplaceSpaces(str) == [j \in 1..Len(str) |-> IF str[j] = " " THEN "_" ELSE str[j]]

\* safe_name without the replace of line 137.
SafeNameKeepsSpaces(name) == LowerAll(KeepOrUnderscore(name))

\* lines 136-137
safe_name(name) == LowerAll(ReplaceSpaces(KeepOrUnderscore(name)))

Names == UNION {[1..n -> Chars] : n \in 0..MaxNameLen}

InitSafeName ==
    /\ MergeIdle
    /\ op = "none"
    /\ arg \in Names
    /\ ret = Returned(<<>>)
    /\ env = None

DeriveSafeName ==
    /\ op' = "safe_name"
    /\ ret' = Returned(safe_name(arg))
    /\ UNCHANGED <<arg, env>>
    /\ UNCHANGED mergeVars

SpecSafeName == InitSafeName /\ [][DeriveSafeName]_vars

(***************************************************************************)
(* C18                                                                     *)
(***************************************************************************)
LowercaseLetters == {"a", "i", "é"}
Digits == {"7"}
Punctuation == {"/"}

\* The characters with one lowercase character: ASCII and accented Latin
\* letters, digits, space and punctuation.
PlainChars == Chars \ {"U+0130", "U+1D400"}

\* C18 as claimed: the derived name holds only lowercase letters, digits,
\* underscores and hyphens, and has one character per character of the
\* display name.
C18_OnlyLowercaseDigitsUnderscoreHyphen ==
    op = "safe_name" =>
        /\ Range(ret.value) \subseteq LowercaseLetters \cup Digits \cup {"_", "-"}
        /\ Len(ret.value) = Len(arg)

\* C18 amended: the derived name holds no space and no punctuation; each of
\* its characters is an underscore, a hyphen, an alphanumeric character that
\* lower() leaves as it is, or the combining mark lower() made of a capital
\* I with dot; it has one character per character of the display name, and
\* one more for each capital I with dot.  For a display name of ASCII and
\* accented Latin letters, digits, spaces and punctuation it holds only
\* lowercase letters, digits, underscores and hyphens, one per character.
C18_NoSpaceNoPunctuationLowered ==
    op = "safe_name" =>
        /\ Range(ret.value) \cap ({" "} \cup Punctuation) = {}
        /\ \A c \in Range(ret.value) :
              \/ c \in {"_", "-", "U+0307"}
              \/ IsAlnum(c) /\ Lower(c) = <<c>>
        /\ Len(ret.value)
             = Len(arg) + Cardinality({j \in 1..Len(arg) : arg[j] = "U+0130"})
        /\ Range(arg) \subseteq PlainChars =>
              /\ Range(ret.value) \subseteq LowercaseLetters \cup Digits \cup {"_", "-"}
              /\ Len(ret.value) = Len(arg)

\* The name "É /" (an accented capital, a space, a slash) became "é__".
C18_Witness ==
    /\ op = "safe_name"
    /\ arg = <<"É", " ", "/">>
    /\ ret.value = <<"é", "_", "_">>

(***************************************************************************)
(* export_dataframe, lines 119-186                                         *)
(*                                                                         *)
(* env.dir is the state of ./exports (absent, present, or blocked: mkdir   *)
(* raises, as when a file of that name exists or the working directory is  *)
(* read-only), env.files the files in it, env.shown the last message shown *)
(* with the values its text was built from.                                *)
(***************************************************************************)
ExportNames == {<<"A", " ", "a">>, <<"a", "_", "a">>, <<"É", "/", "7">>}

\* The format tags of the three branches, and one that is none of them.
Formats == {"CSV", "Excel", "JSON", "XML"}

Extension(format) ==
    CASE format = "CSV" -> ".csv"
      [] format = "Excel" -> ".xlsx"
      [] format = "JSON" -> ".json"

\* export_dir / f"{safe_name}.csv"
FilePath(name, format) == <<"exports/">> \o safe_name(name) \o <<Extension(format)>>

PathValue(file_path) == [t |-> "path", file_path |-> file_path]

\* st.success(f"... {file_path}") and st.error(f"... {e}")
Message(kind, parts) == [kind |-> kind, parts |-> parts]

\* How writing the file goes: to_csv, to_excel, to_json or the open that
\* follows can raise.
WriteOutcomes == {"written", "raises"}

export_dataframe(e, name, format, io) ==
    IF e.dir = "blocked"
    THEN [ret |-> Raised("OSError"), env |-> e]
    ELSE IF format \notin {"CSV", "Excel", "JSON"}
    THEN [ret |-> Returned(None),
          env |-> [e EXCEPT !.dir = "present",
                            !.shown = Message("error", << <<"UnboundLocalError">> >>)]]
    ELSE IF io = "raises"
    THEN [ret |-> Returned(None),
          env |-> [e EXCEPT !.dir = "present",
                            !.shown = Message("error", << <<"OSError">> >>)]]
    ELSE [ret |-> Returned(PathValue(FilePath(name, format))),
          env |-> [e EXCEPT !.dir = "present",
                            !.files = @ \cup {FilePath(name, format)},
                            !.shown = Message("success", <<FilePath(name, format)>>)]]

ExportArg(name, format) == [name |-> name, format |-> format]

InitExport ==
    /\ MergeIdle
    /\ op = "none"
    /\ arg = ExportArg(<<>>, "CSV")
    /\ ret = Returned(None)
    /\ \E dir \in {"absent", "present", "blocked"} :
          env = [dir |-> dir, files |-> {}, shown |-> Message("none", <<>>)]

CallExportDataframe ==
    /\ \E name \in ExportNames, format \in Formats, io \in WriteOutcomes :
          LET x == export_dataframe(env, name, format, io)
          IN /\ arg' = ExportArg(name, format)
             /\ ret' = x.ret
             /\ env' = x.env
    /\ op' = "export_dataframe"
    /\ UNCHANGED mergeVars

SpecExport == InitExport /\ [][CallExportDataframe]_vars

(***************************************************************************)
(* C19                                                                     *)
(***************************************************************************)
\* The last export gave no file: it raised or returned None.
ExportFailed ==
    /\ op = "export_dataframe"
    /\ ret.raised # "none" \/ ret.value = None

\* C19 as claimed, for the export that fails: it raises nothing, also when
\* the export directory cannot be created, and the failure is reported in an
\* error message that carries the display name of the table.
C19_FailureReportedWithTableName ==
    ExportFailed =>
        /\ ret.raised = "none"
        /\ env.shown.kind = "error"
        /\ arg.name \in Range(env.shown.parts)

(***************************************************************************)
(* Construction of PDFPage and StructuredOCR from any field values         *)
(***************************************************************************)
\* What a caller can pass as page_number: integers around zero, None, and a
\* string that is no number.
PageNumbers == {Integer(n) : n \in -1..MaxPages} \cup {None, Scalar("abc")}

\* What a caller can pass as ocr_contents: a mapping, None, a string, a list.
Contents == Mappings \cup {None, ErrorString, List(<<>>)}

RecordArgs ==
    {Typed("PDFPage", [page_number |-> n, image_path |-> p]) :
        n \in PageNumbers, p \in {Scalar(ImagePath(1)), None}}
    \cup {Typed("StructuredOCR", [file_name |-> f, ocr_contents |-> c]) :
            f \in {Scalar(ImagePath(1)), None}, c \in Contents}

InitRecords ==
    /\ MergeIdle
    /\ op = "none"
    /\ arg \in RecordArgs
    /\ ret = Returned(None)
    /\ env = None

\* PDFPage(page_number=..., image_path=...); ocr_data takes its default.
ConstructPDFPage ==
    /\ arg.type = "PDFPage"
    /\ op' = "PDFPage"
    /\ ret' = NewPDFPage(arg.value.page_number, arg.value.image_path, None)
    /\ UNCHANGED <<arg, env>>
    /\ UNCHANGED mergeVars

ConstructStructuredOCR ==
    /\ arg.type = "StructuredOCR"
    /\ op' = "StructuredOCR"
    /\ ret' = NewStructuredOCR(arg.value.file_name, arg.value.ocr_contents)
    /\ UNCHANGED <<arg, env>>
    /\ UNCHANGED mergeVars

NextRecords == ConstructPDFPage \/ ConstructStructuredOCR

SpecRecords == InitRecords /\ [][NextRecords]_vars

(***************************************************************************)
(* C20                                                                     *)
(***************************************************************************)
\* C20 as claimed: a PDFPage that was constructed has page_number >= 1, and
\* a StructuredOCR that was constructed has a mapping as ocr_contents; any
\* other construction was rejected.
C20_ConstructedRecordsAreValid ==
    /\ (op = "PDFPage" /\ ret.raised = "none") => ret.value.page_number >= 1
    /\ (op = "StructuredOCR" /\ ret.raised = "none") => IsDict(ret.value.ocr_contents)

(***************************************************************************)
(* C21                                                                     *)
(***************************************************************************)
\* C21: an extract_data call with a prompt name that is not among the loaded
\* prompts ends in ValueError and changes nothing: no page was recognized,
\* every page and every list its record holds is what it was before the call,
\* and no result was produced.
C21_UnknownPromptHasNoEffect ==
    [][(outcome' = "ValueError" /\ calls' = calls + 1) =>
          /\ pdf_pages' = pdf_pages
          /\ heap' = heap
          /\ ItemsOf(pdf_pages', heap') = ItemsOf(pdf_pages, heap)
          /\ result' = result]_vars

\* A DataExtractor with a processor was asked for an unknown prompt on pages
\* of which one holds a record and one holds none.
C21_Witness ==
    /\ outcome = "ValueError"
    /\ ocr_processor
    /\ \E i, j \in 1..Len(pdf_pages) : HasData(pdf_pages[i]) /\ ~HasData(pdf_pages[j])
    /\ result = None

MaxAppPages == 2

\* OCRProcessor(api_key=...): the processor made from a key.
Processor(api_key) == [t |-> "OCRProcessor", api_key |-> api_key]

\* DataExtractor(ocr_processor=...), data_extractor.py line 30
DataExtractor(processor) == [ocr_processor |-> processor]

\* lines 41-51: the processor is made from MISTRAL_API_KEY when that is set,
\* and the extractor is given what self.ocr_processor is at that moment.
NewApp(key_in_environment) ==
    LET processor == IF key_in_environment THEN Processor("MISTRAL_API_KEY") ELSE None
    IN [ocr_processor |-> processor, data_extractor |-> DataExtractor(processor)]

InitApp ==
    /\ \E key_in_environment \in BOOLEAN :
          /\ env = [MISTRAL_API_KEY |-> key_in_environment, typed |-> ""]
          /\ arg = NewApp(key_in_environment)
          /\ ocr_processor = key_in_environment
    /\ op = "__init__"
    /\ ret = None
    /\ pdf_pages = <<>>
    /\ heap = EmptyHeap
    /\ result = None
    /\ outcome = "none"
    /\ calls = 0
    /\ merge_heap = EmptyHeap

\* run, lines 61-71: without the environment variable the user types a key
\* and the app makes its processor from it.
TypeApiKey ==
    /\ ~env.MISTRAL_API_KEY
    /\ env' = [env EXCEPT !.typed = "typed key"]
    /\ arg' = [arg EXCEPT !.ocr_processor = Processor("typed key")]
    /\ op' = "run"
    /\ UNCHANGED ret
    /\ UNCHANGED mergeVars

\* run, lines 81-104, with _step_process_ocr and _step_extract_data: the
\* pages are converted, recognized one by one without prompt by the app's
\* processor, and handed to data_extractor.extract_data with the selected
\* prompt, which is one of the extractor's prompts.
LaunchExtraction ==
    /\ arg.ocr_processor # None
    /\ \E n \in 1..MaxAppPages, prompt_name \in Prompts :
       \E outs \in [1..n -> Outcomes] :
          LET step4 == ProcessIndividually(convert_pdf_to_images(n), EmptyHeap, outs)
          IN IF arg.data_extractor.ocr_processor = None
             THEN LET m == MergeResult(step4.pages, step4.heap, prompt_name)
                  IN /\ pdf_pages' = step4.pages
                     /\ merge_heap' = Collect(step4.heap, step4.pages, None)
                     /\ result' = m.res
                     /\ heap' = Collect(m.heap, step4.pages, m.res)
                     /\ outcome' = "merged"
             ELSE \/ \E shape \in CombinedShapes :
                        LET p == ProcessCombined(step4.pages, step4.heap, shape)
                            res == ExtractionResult(PdfFile, prompt_name,
                                                    p.returned.ocr_contents)
                        IN /\ pdf_pages' = p.pages
                           /\ merge_heap' = EmptyHeap
                           /\ result' = res
                           /\ heap' = Collect(p.heap, p.pages, res)
                           /\ outcome' = "combined"
                  \/ \E again \in [1..n -> FallbackOutcomes] :
                        LET p == ProcessIndividually(step4.pages, step4.heap, again)
                            m == MergeResult(p.pages, p.heap, prompt_name)
                        IN /\ pdf_pages' = p.pages
                           /\ merge_heap' = Collect(p.heap, p.pages, None)
                           /\ result' = m.res
                           /\ heap' = Collect(m.heap, p.pages, m.res)
                           /\ outcome' = "fallback"
    /\ calls' = 1
    /\ op' = "_step_extract_data"
    /\ UNCHANGED <<ocr_processor, arg, ret, env>>

NextApp == TypeApiKey \/ LaunchExtraction

SpecApp == InitApp /\ [][NextApp]_vars

(***************************************************************************)
(* C23                                                                     *)
(***************************************************************************)
\* C23 as claimed: when extraction is launched with a processor set on the
\* app, the DataExtractor of the extraction step holds that same processor,
\* and the step ran recognition with the selected prompt (combined, or page
\* by page after a failed combined call) instead of only merging the records
\* the pages already held.
C23_ExtractorHoldsTheAppProcessor ==
    (op = "_step_extract_data" /\ arg.ocr_processor # None) =>
        /\ arg.data_extractor.ocr_processor = arg.ocr_processor
        /\ outcome \in {"combined", "fallback"}

(***************************************************************************)
(* C24                                                                     *)
(***************************************************************************)
\* The last export wrote its file and returned the path.
ExportSucceeded ==
    /\ op = "export_dataframe"
    /\ ret.raised = "none"
    /\ ret.value # None

\* C24 as claimed: the file an export has written is the file of no table
\* with a different display name; every other display name, exported in the
\* same format, gets a different file path.
C24_DistinctNamesDistinctFiles ==
    ExportSucceeded =>
        \A sibling \in ExportNames \ {arg.name} :
            FilePath(sibling, arg.format) # ret.value.file_path

(***************************************************************************)
(* C25                                                                     *)
(***************************************************************************)
\* The content the entry point was called with: the ocr_contents of a
\* StructuredOCR, the extracted_data of an ExtractionResult, a raw mapping
\* itself.
Content ==
    CASE arg.type = "ExtractionResult" -> arg.value.extracted_data
      [] arg.type = "StructuredOCR" -> arg.value.ocr_contents
      [] OTHER -> arg.value

\* The three ways of handing the same content to the entry point.
Wrappers(c) ==
    {Typed("StructuredOCR", StructuredOCR("page_001.jpeg", c)),
     Typed("ExtractionResult", ExtractionResult("document.pdf", "facture", c)),
     Typed("dict", c)}

SameOutcome(x, y) ==
    /\ x.raised = y.raised
    /\ x.raised = "none" => x.value = y.value

\* C25 as claimed: whichever wrapper the content of the last call is handed
\* in, the entry point gives the tables it has just given, also when the
\* content has top-level keys named "file_name" and "ocr_contents".
C25_SameTablesWhateverTheWrapper ==
    (op = "extract_dataframes_from_ocr_json" /\ IsDict(Content)) =>
        \A wrapped \in Wrappers(Content) :
            SameOutcome(extract_dataframes_from_ocr_json(wrapped), ret)

(***************************************************************************)
(* C26                                                                     *)
(***************************************************************************)
\* C26 as claimed: sanitizing the sanitized name gives that name again, for
\* every display name.
C26_SanitizingTwiceChangesNothing ==
    op = "safe_name" => safe_name(ret.value) = ret.value

\* A sanitized name with every combining dot replaced by an underscore.
DotsReplaced(str) == [j \in 1..Len(str) |-> IF str[j] = "U+0307" THEN "_" ELSE str[j]]

\* C26 amended: sanitizing the sanitized name gives that name again for every
\* display name of ASCII and accented Latin letters, digits, spaces and
\* punctuation, and for every name without a character whose lowercase form
\* holds a combining mark.  For a name with the capital I with dot, the second
\* pass replaces each combining dot the first pass produced by an underscore
\* and changes nothing else; a third pass changes nothing.
C26_IdempotentButForCombiningDots ==
    op = "safe_name" =>
        /\ safe_name(ret.value) = DotsReplaced(ret.value)
        /\ "U+0130" \notin Range(arg) => safe_name(ret.value) = ret.value
        /\ safe_name(safe_name(ret.value)) = safe_name(ret.value)

\* A name with an uppercase letter, a space and punctuation was sanitized to
\* a different name, which sanitizing leaves as it is.
C26_Witness ==
    /\ op = "safe_name"
    /\ arg = <<"A", " ", "/">>
    /\ ret.value = <<"a", "_", "_">>
    /\ safe_name(ret.value) = ret.value

(***************************************************************************)
(* C27                                                                     *)
(***************************************************************************)
\* C27 as claimed: an export with a format tag that is none of "CSV",
\* "Excel", "JSON" returns None, raises nothing and leaves the files of the
\* export directory as they were; an export returns a path only for one of
\* the three tags, and then the file of that path has been written.
C27_UnknownFormatReturnsNoneWritesNothing ==
    [][op' = "export_dataframe" =>
          /\ arg'.format \notin {"CSV", "Excel", "JSON"} =>
                /\ ret'.raised = "none"
                /\ ret'.value = None
                /\ env'.files = env.files
          /\ (ret'.raised = "none" /\ ret'.value # None) =>
                /\ arg'.format \in {"CSV", "Excel", "JSON"}
                /\ ret'.value.file_path \in env'.files]_vars

====
